---- MODULE Spec2Model ----
(***************************************************************************)
(* Model of the role-detect core: the segment grouper (app/grouping.py),   *)
(* the talking-head heuristic (app/talking_head.py), the disappearance     *)
(* scan (app/broll_meta.py), the frame classifier's coercion of a reply    *)
(* (app/roll_classifier.py) and the analyze operation (app/main.py).       *)
(*                                                                         *)
(* Conventions:                                                            *)
(*  - Python's None is the empty tuple, a value v that may be None is      *)
(*    <<v>> (None / Some).                                                 *)
(*  - list indices are Python's (0-based); At(l, i) reads l[i].            *)
(*  - the lists a function returns are sequences; a result variable is    *)
(*    None until the function has been called and <<result>> afterwards.   *)
(*  - a float that is a quotient of two ints is the pair <<num, den>>;     *)
(*    confidences and ratios of a frame are integers in hundredths;        *)
(*    a rounded result round(x, 3) is an integer in thousandths.           *)
(***************************************************************************)
EXTENDS Integers, Sequences, FiniteSets, TLC

VARIABLES
    op,                     \* which operation this run exercises
    pc,                     \* position of the running operation
    frames,                 \* List[FrameRole] given to the grouper / detector
    fps,                    \* the grouper's fps argument (None or an int)
    segments,               \* result of group_frames_to_segments (None before the call)
    grouped,                \* result of group_frames_with_indices (None before the call)
    explanations,           \* List[str] given to detect_talking_head
    min_consecutive,        \* threshold argument of detect_talking_head
    talking_result,         \* TalkingHeadResult (None before the call)
    frame_count,            \* CAP_PROP_FRAME_COUNT of the video
    video_fps,              \* CAP_PROP_FPS of the video
    video,                  \* per sampled second: what extraction + presence check answer
    time_sec,               \* loop variable of the scan
    last_talking_head_time, \* scan local
    disappear_time,         \* scan local
    calls,                  \* seconds for which has_talking_head was invoked, in order
    extractions,            \* seconds for which extract_frame_at_time was invoked, in order
    disappear_time_with_buffer, \* scan local
    time_start,             \* returned timestamp
    time_end,               \* returned timestamp
    conf,                   \* result of average_confidence_by_role (None before the call)
    request,                \* AnalyzeRequest given to analyze_rolls
    images,                 \* the input images of the request, each with what its
                            \* download and classification yield
    frame_data_uris,        \* analyze_rolls local, aligned with frame_roles (= frames)
    image_idx,              \* analyze_rolls: index of the image the loop is at
    segments_out,           \* analyze_rolls local: the segments of the response
    content,                \* what the classification request of classify_frame yields
    classified,             \* what classify_frame returns or raises (None before the call)
    script,                 \* locals of timing.py's find_talking_head_disappear_time
    invocations,            \* per get_broll_meta invocation: its id and where it is
    files                   \* the temporary directory: per path, whose download it holds

vars == <<op, pc, frames, fps, segments, grouped, explanations, min_consecutive,
          talking_result, frame_count, video_fps, video, time_sec,
          last_talking_head_time, disappear_time, calls, extractions,
          disappear_time_with_buffer, time_start, time_end,
          conf, request, images, frame_data_uris, image_idx, segments_out, content,
          classified, script, invocations, files>>

groupVars == <<frames, fps, segments, grouped>>
talkVars  == <<explanations, min_consecutive, talking_result>>
scanVars  == <<frame_count, video_fps, video, time_sec, last_talking_head_time,
               disappear_time, calls, extractions, disappear_time_with_buffer,
               time_start, time_end>>
lateVars  == <<script, invocations, files>>
moreVars  == <<conf, request, images, frame_data_uris, image_idx, segments_out, content,
               classified, lateVars>>

----------------------------------------------------------------------------
(* Bounds of the model                                                     *)

MaxGroupFrames == 5
MaxFps == 3
MaxTalkFrames == 4
MaxThreshold == 4
MaxSeconds == 4
MaxConfFrames == 4
MaxImages == 3

----------------------------------------------------------------------------
(* Python values                                                           *)

None == <<>>
Some(v) == <<v>>
IsNone(o) == o = <<>>
Val(o) == o[1]

At(l, i) == l[i + 1]
Min(a, b) == IF a <= b THEN a ELSE b
Max(a, b) == IF a >= b THEN a ELSE b

RECURSIVE SeqsUpTo(_, _)
SeqsUpTo(S, n) ==
    IF n = 0 THEN {<<>>}
    ELSE LET shorter == SeqsUpTo(S, n - 1)
         IN  shorter \cup {Append(s, x) : s \in {t \in shorter : Len(t) = n - 1}, x \in S}

\* f"{n:02d}"
Pad2(n) == IF n >= 0 /\ n < 10 THEN "0" \o ToString(n) ELSE ToString(n)

\* int(round(x)) for x = num/den >= 0: Python rounds a tie to the even integer
RoundHalfEven(num, den) ==
    LET q == num \div den
        r == num % den
    IN  IF 2 * r < den THEN q
        ELSE IF 2 * r > den THEN q + 1
        ELSE IF q % 2 = 0 THEN q ELSE q + 1

----------------------------------------------------------------------------
(* app/schemas.py                                                          *)

RoleType == {"A-roll", "B-roll", "C-roll"}

FrameRole(id, role, confidence, a_role_ratio) ==
    [frame |-> id, role |-> role, confidence |-> confidence, a_role_ratio |-> a_role_ratio]

Segment(start, end, role) == [start |-> start, end |-> end, role |-> role]

----------------------------------------------------------------------------
(* app/utils.py                                                            *)

\* frame_index / float(fps) when fps > 0, else float(frame_index)
frames_to_seconds(frame_index, f) ==
    IF f /= 0 /\ f > 0 THEN <<frame_index, f>> ELSE <<frame_index, 1>>

seconds_to_timecode(seconds) ==
    LET s == IF seconds[1] < 0 THEN <<0, 1>> ELSE seconds
        total_seconds == RoundHalfEven(s[1], s[2])
        mm == total_seconds \div 60
        ss == total_seconds % 60
    IN  Pad2(mm) \o ":" \o Pad2(ss)

----------------------------------------------------------------------------
(* app/grouping.py                                                         *)

\* variant: a missing rate falls back to 30 frames per second
FpsOr1_or_30(f) == IF IsNone(f) \/ Val(f) = 0 THEN 30 ELSE Val(f)

\* `fps or 1`: None and 0 are falsy
FpsOr1(f) == IF IsNone(f) \/ Val(f) = 0 THEN 1 ELSE Val(f)

\* variant: a closed segment takes the role of the frame that closed it
MakeSegment_role_of_next(fr, f, start_idx, end_idx, role) ==
    Segment(seconds_to_timecode(frames_to_seconds(start_idx, FpsOr1(f))),
            seconds_to_timecode(frames_to_seconds(end_idx, FpsOr1(f))),
            IF end_idx < Len(fr) THEN At(fr, end_idx).role ELSE role)

\* variant: the end is taken at the segment's last frame, not one past it
MakeSegment_inclusive_end(fr, f, start_idx, end_idx, role) ==
    Segment(seconds_to_timecode(frames_to_seconds(start_idx, FpsOr1(f))),
            seconds_to_timecode(frames_to_seconds(end_idx - 1, FpsOr1(f))),
            role)

MakeSegment(fr, f, start_idx, end_idx, role) ==
    Segment(seconds_to_timecode(frames_to_seconds(start_idx, FpsOr1(f))),
            seconds_to_timecode(frames_to_seconds(end_idx, FpsOr1(f))),
            role)

\* the for loop of group_frames_with_indices from index idx on, then the tail append
RECURSIVE GroupLoop(_, _, _, _, _, _)
GroupLoop(fr, f, idx, start_idx, current_role, acc) ==
    IF idx >= Len(fr)
    THEN Append(acc, <<MakeSegment(fr, f, start_idx, Len(fr), current_role),
                       start_idx, Len(fr)>>)
    ELSE IF At(fr, idx).role /= current_role
         THEN GroupLoop(fr, f, idx + 1, idx, At(fr, idx).role,
                        Append(acc, <<MakeSegment(fr, f, start_idx, idx, current_role),
                                      start_idx, idx>>))
         ELSE GroupLoop(fr, f, idx + 1, start_idx, current_role, acc)

\* variant: the tail tuple ends at the last index instead of len(frames)
group_frames_with_indices_short_tail(fr, f) ==
    IF fr = <<>> THEN <<>>
    ELSE LET g == GroupLoop(fr, f, 1, 0, At(fr, 0).role, <<>>)
         IN  [g EXCEPT ![Len(g)][3] = Len(fr) - 1]

group_frames_with_indices(fr, f) ==
    IF fr = <<>> THEN <<>>
    ELSE GroupLoop(fr, f, 1, 0, At(fr, 0).role, <<>>)

\* the for loop of group_frames_to_segments from index idx on, then the tail append
RECURSIVE SegmentLoop(_, _, _, _, _, _)
SegmentLoop(fr, f, idx, start_idx, current_role, acc) ==
    IF idx >= Len(fr)
    THEN Append(acc, MakeSegment(fr, f, start_idx, Len(fr), current_role))
    ELSE IF At(fr, idx).role /= current_role
         THEN SegmentLoop(fr, f, idx + 1, idx, At(fr, idx).role,
                          Append(acc, MakeSegment(fr, f, start_idx, idx, current_role)))
         ELSE SegmentLoop(fr, f, idx + 1, start_idx, current_role, acc)

\* variant: no early return, the tail segment is appended for an empty list too
group_frames_to_segments_unguarded(fr, f) ==
    IF fr = <<>> THEN <<MakeSegment(fr, f, 0, 0, "B-roll")>>
    ELSE SegmentLoop(fr, f, 1, 0, At(fr, 0).role, <<>>)

group_frames_to_segments(fr, f) ==
    IF fr = <<>> THEN <<>>
    ELSE SegmentLoop(fr, f, 1, 0, At(fr, 0).role, <<>>)

\* round(num / den, 3 decimals), num/den in thousandths: the float quotient lies
\* within rounding error of num/den, so off a tie it rounds as num/den does,
\* and on a tie its error decides (up or not)
RoundQuotient(num, den, up) ==
    LET q == num \div den
        r == num % den
    IN  IF 2 * r < den THEN q
        ELSE IF 2 * r > den THEN q + 1
        ELSE IF up THEN q + 1 ELSE q

\* the loop `for fr in frames` of average_confidence_by_role, for the key role:
\* <<sums[role], counts[role]>> (sums in hundredths)
RECURSIVE SumCountLoop(_, _, _, _)
SumCountLoop(fr, role, idx, acc) ==
    IF idx >= Len(fr) THEN acc
    ELSE SumCountLoop(fr, role, idx + 1,
                      IF At(fr, idx).role = role
                      THEN <<acc[1] + At(fr, idx).confidence, acc[2] + 1>>
                      ELSE acc)

\* variant: a role without frames is reported with 0
average_confidence_by_role_all_keys(fr, up) ==
    [k \in RoleType |->
        LET sc == SumCountLoop(fr, k, 0, <<0, 0>>)
        IN  IF sc[2] > 0 THEN RoundQuotient(10 * sc[1], sc[2], up[k]) ELSE 0]

\* the mapping role -> mean confidence in thousandths; up[k] is the direction in
\* which the float error of sums[k] / counts[k] resolves a tie
average_confidence_by_role(fr, up) ==
    [k \in {r \in RoleType : SumCountLoop(fr, r, 0, <<0, 0>>)[2] > 0} |->
        LET sc == SumCountLoop(fr, k, 0, <<0, 0>>)
        IN  RoundQuotient(10 * sc[1], sc[2], up[k])]

----------------------------------------------------------------------------
(* app/talking_head.py                                                     *)

MinConfidence == 55
MinARoleRatio == 35
DefaultMinConsecutive == 3
MaxEvidence == 3
DefaultDescription == "Face-forward frame."

TalkingHeadResult(is_talkinghead, confidence, evidence) ==
    [is_talkinghead |-> is_talkinghead, confidence |-> confidence, evidence |-> evidence]

\* the zip loop of _max_consecutive from position k (0-based) of indices on
RECURSIVE MaxConsecutiveLoop(_, _, _, _)
MaxConsecutiveLoop(indices, k, streak, longest) ==
    IF k + 1 >= Len(indices) THEN longest
    ELSE IF At(indices, k + 1) = At(indices, k) + 1
         THEN MaxConsecutiveLoop(indices, k + 1, streak + 1, Max(longest, streak + 1))
         ELSE MaxConsecutiveLoop(indices, k + 1, 1, longest)

_max_consecutive(indices) ==
    IF indices = <<>> THEN 0 ELSE MaxConsecutiveLoop(indices, 0, 1, 1)

\* variant: a confidence equal to the minimum is rejected
Qualifies_strict(frame) ==
    ~ (frame.role /= "A-roll")
    /\ ~ (frame.confidence <= MinConfidence)
    /\ ~ (frame.a_role_ratio < MinARoleRatio)

\* the three `continue` tests of the enumerate loop
Qualifies(frame) ==
    ~ (frame.role /= "A-roll")
    /\ ~ (frame.confidence < MinConfidence)
    /\ ~ (frame.a_role_ratio < MinARoleRatio)

RECURSIVE QualifiedLoop(_, _, _)
QualifiedLoop(fr, idx, acc) ==
    IF idx >= Len(fr) THEN acc
    ELSE QualifiedLoop(fr, idx + 1, IF Qualifies(At(fr, idx)) THEN Append(acc, idx) ELSE acc)

QualifiedIndices(fr) == QualifiedLoop(fr, 0, <<>>)

\* coverage = len(qualified_indices) / max(1, len(frames)), kept as a quotient
Coverage(qualified_indices, fr) == <<Len(qualified_indices), Max(1, Len(fr))>>

\* coverage >= 0.2 (the float quotient is correctly rounded, so it compares as the rational does)
CoverageAtLeastFifth(coverage) == 5 * coverage[1] >= coverage[2]

\* variant: the coverage test stands alone instead of under the count test
IsTalking_any(qualified_indices, coverage, longest_run, threshold) ==
    longest_run >= threshold
    \/ Len(qualified_indices) >= threshold
    \/ CoverageAtLeastFifth(coverage)

IsTalking(qualified_indices, coverage, longest_run, threshold) ==
    longest_run >= threshold
    \/ (Len(qualified_indices) >= threshold /\ CoverageAtLeastFifth(coverage))

\* round(0.6 * coverage + 0.4 * min(1.0, longest_run / (threshold + 1)), 3), in thousandths
TalkingScore(coverage, longest_run, threshold) ==
    LET run == Min(threshold + 1, longest_run)
    IN  RoundHalfEven(600 * coverage[1] * (threshold + 1) + 400 * run * coverage[2],
                      coverage[2] * (threshold + 1))

\* variant: no min(0.99, ...)
Confidence_uncapped(is_talking, coverage, longest_run, threshold) ==
    IF is_talking
    THEN TalkingScore(coverage, longest_run, threshold)
    ELSE RoundHalfEven(500 * coverage[1], coverage[2])

\* the if/else computing confidence, in thousandths
Confidence(is_talking, coverage, longest_run, threshold) ==
    IF is_talking
    THEN Min(990, TalkingScore(coverage, longest_run, threshold))
    ELSE RoundHalfEven(500 * coverage[1], coverage[2])

\* variant: an empty explanation is kept
Description_keep_empty(expl, idx) ==
    IF idx < Len(expl) THEN At(expl, idx) ELSE DefaultDescription

\* explanations[idx] if idx < len(explanations) and explanations[idx] else "Face-forward frame."
Description(expl, idx) ==
    IF idx < Len(expl) /\ At(expl, idx) /= "" THEN At(expl, idx) ELSE DefaultDescription

\* qualified_indices[:3]
FirstThree(l) == SubSeq(l, 1, Min(MaxEvidence, Len(l)))

Evidence(fr, expl, qualified_indices) ==
    [k \in 1..Len(FirstThree(qualified_indices)) |->
        [frame |-> At(fr, qualified_indices[k]).frame,
         description |-> Description(expl, qualified_indices[k])]]

detect_talking_head(fr, expl, threshold) ==
    IF fr = <<>> THEN TalkingHeadResult(FALSE, 0, <<>>)
    ELSE LET qualified_indices == QualifiedIndices(fr)
             coverage == Coverage(qualified_indices, fr)
             longest_run == _max_consecutive(qualified_indices)
             is_talking == IsTalking(qualified_indices, coverage, longest_run, threshold)
         IN  TalkingHeadResult(is_talking,
                               Confidence(is_talking, coverage, longest_run, threshold),
                               Evidence(fr, expl, qualified_indices))

----------------------------------------------------------------------------
(* app/broll_meta.py                                                       *)

\* what one sampled second yields: no frame, or a frame whose presence check
\* answers true, answers false, or fails inside has_talking_head
Outcomes == {"noframe", "present", "absent", "error"}

\* frame_count / fps when fps > 0, else 0.0
get_video_duration(count, vfps) ==
    IF vfps /= 0 /\ vfps > 0 THEN <<count, vfps>> ELSE <<0, 1>>

\* int(x) of a non-negative quotient
IntOf(x) == x[1] \div x[2]

duration == get_video_duration(frame_count, video_fps)

\* variant: a failed read is handed on as a frame
extract_frame_at_time_always(v, t) == Some(v[t])

\* frame if ret else None
extract_frame_at_time(v, t) == IF v[t] = "noframe" THEN None ELSE Some(v[t])

\* the except branch returns False
\* variant: a failed check answers true
has_talking_head_fail_open(frame) == frame \in {"present", "error"}

has_talking_head(frame) == frame = "present"

seconds_to_timestamp(seconds) ==
    LET total_seconds == seconds
        hours == total_seconds \div 3600
        remainder == total_seconds % 3600
        minutes == remainder \div 60
        secs == remainder % 60
    IN  Pad2(hours) \o ":" \o Pad2(minutes) \o ":" \o Pad2(secs)

\* variant: the fallback is second 0
FallbackTime_zero(dt, int_duration) == IF IsNone(dt) THEN 0 ELSE Val(dt)

\* if disappear_time is None: disappear_time = int(duration)
FallbackTime(dt, int_duration) == IF IsNone(dt) THEN int_duration ELSE Val(dt)

\* variant: the buffer is not clamped to int(duration)
WithBuffer_unclamped(dt, int_duration) == dt + 1

\* disappear_time + 1, not beyond int(duration)
WithBuffer(dt, int_duration) ==
    IF dt + 1 > int_duration THEN int_duration ELSE dt + 1

InLoop == pc = "loop" /\ time_sec <= IntOf(duration)

\* frame is None: continue
ScanSkipFrame ==
    /\ op = "scan" /\ InLoop
    /\ IsNone(extract_frame_at_time(video, time_sec))
    /\ extractions' = Append(extractions, time_sec)
    /\ time_sec' = time_sec + 1
    /\ UNCHANGED <<moreVars, op, pc, groupVars, talkVars, frame_count, video_fps, video,
                   last_talking_head_time, disappear_time, calls,
                   disappear_time_with_buffer, time_start, time_end>>

\* has_head: last_talking_head_time = time_sec
ScanHeadPresent ==
    /\ op = "scan" /\ InLoop
    /\ ~ IsNone(extract_frame_at_time(video, time_sec))
    /\ has_talking_head(Val(extract_frame_at_time(video, time_sec)))
    /\ last_talking_head_time' = Some(time_sec)
    /\ calls' = Append(calls, time_sec)
    /\ extractions' = Append(extractions, time_sec)
    /\ time_sec' = time_sec + 1
    /\ UNCHANGED <<moreVars, op, pc, groupVars, talkVars, frame_count, video_fps, video,
                   disappear_time, disappear_time_with_buffer, time_start, time_end>>

\* variant: disappear_time is set and the loop goes on to the next second
ScanHeadDisappeared_no_break ==
    /\ op = "scan" /\ InLoop
    /\ ~ IsNone(extract_frame_at_time(video, time_sec))
    /\ ~ has_talking_head(Val(extract_frame_at_time(video, time_sec)))
    /\ ~ IsNone(last_talking_head_time) /\ IsNone(disappear_time)
    /\ disappear_time' = Some(time_sec)
    /\ calls' = Append(calls, time_sec)
    /\ extractions' = Append(extractions, time_sec)
    /\ time_sec' = time_sec + 1
    /\ UNCHANGED <<moreVars, op, pc, groupVars, talkVars, frame_count, video_fps, video,
                   last_talking_head_time, disappear_time_with_buffer, time_start, time_end>>

\* elif last_talking_head_time is not None and disappear_time is None: set and break
ScanHeadDisappeared ==
    /\ op = "scan" /\ InLoop
    /\ ~ IsNone(extract_frame_at_time(video, time_sec))
    /\ ~ has_talking_head(Val(extract_frame_at_time(video, time_sec)))
    /\ ~ IsNone(last_talking_head_time) /\ IsNone(disappear_time)
    /\ disappear_time' = Some(time_sec)
    /\ calls' = Append(calls, time_sec)
    /\ extractions' = Append(extractions, time_sec)
    /\ pc' = "after"
    /\ UNCHANGED <<moreVars, op, groupVars, talkVars, frame_count, video_fps, video, time_sec,
                   last_talking_head_time, disappear_time_with_buffer, time_start, time_end>>

\* neither branch: next iteration
ScanHeadAbsent ==
    /\ op = "scan" /\ InLoop
    /\ ~ IsNone(extract_frame_at_time(video, time_sec))
    /\ ~ has_talking_head(Val(extract_frame_at_time(video, time_sec)))
    /\ ~ (~ IsNone(last_talking_head_time) /\ IsNone(disappear_time))
    /\ calls' = Append(calls, time_sec)
    /\ extractions' = Append(extractions, time_sec)
    /\ time_sec' = time_sec + 1
    /\ UNCHANGED <<moreVars, op, pc, groupVars, talkVars, frame_count, video_fps, video,
                   last_talking_head_time, disappear_time, disappear_time_with_buffer,
                   time_start, time_end>>

\* the statements after the loop, up to the return
ScanFinish ==
    /\ op = "scan"
    /\ (pc = "loop" /\ time_sec > IntOf(duration)) \/ pc = "after"
    /\ LET dt == FallbackTime(disappear_time, IntOf(duration))
           buffered == WithBuffer(dt, IntOf(duration))
       IN  /\ disappear_time' = Some(dt)
           /\ disappear_time_with_buffer' = Some(buffered)
           /\ time_start' = Some(seconds_to_timestamp(buffered))
           /\ time_end' = Some(seconds_to_timestamp(IntOf(duration)))
    /\ pc' = "done"
    /\ UNCHANGED <<moreVars, op, groupVars, talkVars, frame_count, video_fps, video, time_sec,
                   last_talking_head_time, calls, extractions>>

----------------------------------------------------------------------------
(* timing.py: the standalone script's scan, run on the video of the API's  *)
(* scan once that one has returned. Its locals are the fields of script.   *)

timing_get_video_duration(count, vfps) ==
    IF vfps /= 0 /\ vfps > 0 THEN <<count, vfps>> ELSE <<0, 1>>

timing_duration == timing_get_video_duration(frame_count, video_fps)

\* frame if ret else None
timing_extract_frame_at_time(v, t) == IF v[t] = "noframe" THEN None ELSE Some(v[t])

\* the bare except returns False
timing_has_talking_head(frame) == frame = "present"

timing_seconds_to_timestamp(seconds) ==
    LET total_seconds == seconds
        hours == total_seconds \div 3600
        remainder == total_seconds % 3600
        minutes == remainder \div 60
        secs == remainder % 60
    IN  Pad2(hours) \o ":" \o Pad2(minutes) \o ":" \o Pad2(secs)

\* the locals before the loop
ScriptLocals ==
    [pc |-> "loop", time_sec |-> 0, last_talking_head_time |-> None,
     disappear_time |-> None, time_start |-> None, time_end |-> None]

ScriptRunning == op = "scan" /\ pc = "done" /\ ~ IsNone(script)

\* one iteration of the script's loop
ScriptIteration ==
    /\ ScriptRunning
    /\ Val(script).pc = "loop" /\ Val(script).time_sec <= IntOf(timing_duration)
    /\ LET l     == Val(script)
           frame == timing_extract_frame_at_time(video, l.time_sec)
       IN  script' = Some(
             IF IsNone(frame) THEN [l EXCEPT !.time_sec = @ + 1]
             ELSE IF timing_has_talking_head(Val(frame))
                  THEN [l EXCEPT !.last_talking_head_time = Some(l.time_sec),
                                 !.time_sec = @ + 1]
             ELSE IF ~ IsNone(l.last_talking_head_time) /\ IsNone(l.disappear_time)
                  THEN [l EXCEPT !.disappear_time = Some(l.time_sec), !.pc = "after"]
             ELSE [l EXCEPT !.time_sec = @ + 1])
    /\ UNCHANGED <<op, pc, frames, conf, groupVars, talkVars, scanVars, request, images,
                   frame_data_uris, image_idx, segments_out, content, classified,
                   invocations, files>>

\* the statements after the script's loop: the fallback, no buffer, the return
ScriptFinish ==
    /\ ScriptRunning
    /\ \/ Val(script).pc = "loop" /\ Val(script).time_sec > IntOf(timing_duration)
       \/ Val(script).pc = "after"
    /\ LET l  == Val(script)
           dt == IF IsNone(l.disappear_time) THEN IntOf(timing_duration)
                 ELSE Val(l.disappear_time)
       IN  script' = Some([l EXCEPT
                 !.disappear_time = Some(dt),
                 !.time_start = Some(timing_seconds_to_timestamp(dt)),
                 !.time_end = Some(timing_seconds_to_timestamp(IntOf(timing_duration))),
                 !.pc = "done"])
    /\ UNCHANGED <<op, pc, frames, conf, groupVars, talkVars, scanVars, request, images,
                   frame_data_uris, image_idx, segments_out, content, classified,
                   invocations, files>>

----------------------------------------------------------------------------
(* app/main.py, get_broll_meta: a synchronous handler, so simultaneous     *)
(* requests run it on the threads of one server process. Each invocation   *)
(* is a record of its id, its position and its response status; files maps *)
(* every path of the temporary directory to the invocation whose download  *)
(* it holds, or None when the path does not exist.                         *)

MaxInvocations == 2

Invocations == 1..MaxInvocations

BrollIds == {"a", "b"}

\* os.getpid(): one value for every request of the process
ServerPid == 1

\* temp_dir / f"video_{os.getpid()}_{id}.mp4"
TempPath(pid, id) == "video_" \o ToString(pid) \o "_" \o id \o ".mp4"

TempPaths == {TempPath(ServerPid, i) : i \in BrollIds}

temp_video(p) == TempPath(ServerPid, invocations[p].id)

BrollAt(p, where) == op = "broll" /\ invocations[p].pc = where

BrollOthers == <<op, pc, frames, conf, groupVars, talkVars, scanVars, request, images,
                 frame_data_uris, image_idx, segments_out, content, classified, script>>

\* get_video_url_from_api returned the url
BrollGetUrl ==
    \E p \in Invocations :
        /\ BrollAt(p, "start")
        /\ invocations' = [invocations EXCEPT ![p].pc = "download"]
        /\ UNCHANGED <<files, BrollOthers>>

\* get_video_url_from_api raised: HTTP 400 before any file is named
BrollGetUrlFailed ==
    \E p \in Invocations :
        /\ BrollAt(p, "start")
        /\ invocations' = [invocations EXCEPT ![p].pc = "done", ![p].status = 400]
        /\ UNCHANGED <<files, BrollOthers>>

\* download_video: urlretrieve creates or truncates the path and writes the video
BrollDownload ==
    \E p \in Invocations :
        /\ BrollAt(p, "download")
        /\ files' = [files EXCEPT ![temp_video(p)] = Some(p)]
        /\ invocations' = [invocations EXCEPT ![p].pc = "duration", ![p].reached = TRUE]
        /\ UNCHANGED BrollOthers

\* download_video raised, before or after urlretrieve opened the path
BrollDownloadFailed ==
    \E p \in Invocations, opened \in BOOLEAN :
        /\ BrollAt(p, "download")
        /\ files' = IF opened THEN [files EXCEPT ![temp_video(p)] = Some(p)] ELSE files
        /\ invocations' = [invocations EXCEPT ![p].pc = "finally", ![p].reached = TRUE,
                                              ![p].status = 500]
        /\ UNCHANGED BrollOthers

\* find_talking_head_disappear_time opens the path for the duration
BrollDuration ==
    \E p \in Invocations :
        /\ BrollAt(p, "duration")
        /\ invocations' = [invocations EXCEPT ![p].pc = "frames",
                               ![p].opened = Append(@, files[temp_video(p)])]
        /\ UNCHANGED <<files, BrollOthers>>

\* ... and opens it again for the frames; the window is returned
BrollFrames ==
    \E p \in Invocations :
        /\ BrollAt(p, "frames")
        /\ invocations' = [invocations EXCEPT ![p].pc = "finally", ![p].status = 200,
                               ![p].opened = Append(@, files[temp_video(p)])]
        /\ UNCHANGED <<files, BrollOthers>>

\* finally: if temp_video.exists()
BrollExists ==
    \E p \in Invocations :
        /\ BrollAt(p, "finally")
        /\ invocations' = [invocations EXCEPT ![p].pc =
                               IF IsNone(files[temp_video(p)]) THEN "done" ELSE "unlink"]
        /\ UNCHANGED <<files, BrollOthers>>

\* temp_video.unlink(): FileNotFoundError when the path is gone by now
BrollUnlink ==
    \E p \in Invocations :
        /\ BrollAt(p, "unlink")
        /\ files' = [files EXCEPT ![temp_video(p)] = None]
        /\ invocations' = [invocations EXCEPT ![p].pc = "done", ![p].status =
                               IF IsNone(files[temp_video(p)]) THEN 500 ELSE @]
        /\ UNCHANGED BrollOthers

----------------------------------------------------------------------------
(* app/roll_classifier.py                                                  *)
(* A reply is (status, kind, payload): kind tells how the content parses,  *)
(* payload is the JSON object it holds. A confidence is in hundredths, a   *)
(* ratio in ten-thousandths before round(x, 3) and in thousandths after.   *)

\* JSON values; a key the object lacks is Missing
Missing   == <<>>
Null      == <<"null">>
Str(s)    == <<"str", s>>
Padded(s) == <<"padded", s>>     \* the string s with white space around it
Num(n)    == <<"num", n>>
NaN       == <<"nan">>
Huge      == <<"huge">>          \* an integer beyond the range of float

ALLOWED_ROLES == {"A-roll", "B-roll", "C-roll"}

ConfidenceOne == 100
RatioOne == 10000

\* payload.get(key, default)
Get(payload, key, default) ==
    IF payload[key] = Missing THEN default ELSE payload[key]

\* str(v) of a string or of null
StrOf(v) == IF v[1] = "null" THEN "None" ELSE v[2]

\* str(v).strip()
StripOf(v) == IF v[1] = "padded" THEN v[2] ELSE StrOf(v)

\* float(v): <<x>> when v converts, None when float raises (a word, null,
\* an integer too large)
FloatOf(v) == IF v[1] \in {"num", "nan"} THEN Some(v) ELSE None

\* min(1.0, x) keeps 1.0 unless x < 1.0, which nan never is
Min1(x, one) == IF x[1] = "num" /\ x[2] < one THEN x[2] ELSE one

\* max(0.0, x)
Max0(x) == IF x > 0 THEN x ELSE 0

\* variant: clamped from above only
Clamp01_no_floor(x, one) == Min1(x, one)

\* max(0.0, min(1.0, x))
Clamp01(x, one) == Max0(Min1(x, one))

\* conf = payload.get("confidence", 0.5); float(conf) or 0.5; clamp
ConfidenceOf(payload) ==
    LET f == FloatOf(Get(payload, "confidence", Num(50)))
    IN  Clamp01(IF IsNone(f) THEN Num(50) ELSE Val(f), ConfidenceOne)

_ratio(payload, key) ==
    LET f == FloatOf(Get(payload, key, Num(0)))
    IN  IF IsNone(f) THEN 0 ELSE Clamp01(Val(f), RatioOne)

\* round(x, 3) of a ratio
Round3(x) == RoundHalfEven(x, 10)

DefaultPayload ==
    [role |-> Str("B-roll"), confidence |-> Num(50), explanation |-> Str(""),
     a_role_ratio |-> Missing, b_role_ratio |-> Missing]

EmptyPayload ==
    [role |-> Missing, confidence |-> Missing, explanation |-> Missing,
     a_role_ratio |-> Missing, b_role_ratio |-> Missing]

\* json.loads(content), the recovery between the first "{" and the last "}",
\* or the default payload; None when parsing or payload.get raises
PayloadOf(c) ==
    CASE c.kind \in {"json", "wrapped"} -> Some(c.payload)
      [] c.kind = "empty"               -> Some(EmptyPayload)
      [] c.kind = "text"                -> Some(DefaultPayload)
      [] c.kind \in {"broken", "array"} -> None

Raised == <<"raised">>

classify_frame(c) ==
    IF c.status /= "ok" \/ IsNone(PayloadOf(c)) THEN Raised
    ELSE LET payload == Val(PayloadOf(c))
             r       == StrOf(Get(payload, "role", Str("B-roll")))
             role    == IF r \notin ALLOWED_ROLES THEN "B-roll" ELSE r
             confidence  == ConfidenceOf(payload)
             explanation == StripOf(Get(payload, "explanation", Str("")))
             a_ratio == _ratio(payload, "a_role_ratio")
             b_ratio == _ratio(payload, "b_role_ratio")
             ratios  == IF a_ratio = 0 /\ b_ratio = 0
                        THEN IF role = "A-roll" THEN <<9000, 1000>>
                             ELSE IF role = "B-roll" THEN <<0, 10000>>
                             ELSE <<2000, 8000>>
                        ELSE <<a_ratio, b_ratio>>
         IN  <<role, confidence, explanation, Round3(ratios[1]), Round3(ratios[2])>>

ClassifyFrame ==
    /\ op = "classify" /\ IsNone(classified)
    /\ classified' = Some(classify_frame(Val(content)))
    /\ UNCHANGED <<op, pc, frames, conf, groupVars, talkVars, scanVars, request, images,
                   frame_data_uris, image_idx, segments_out, content, lateVars>>

\* replies on both sides of every test of classify_frame
RoleValues ==
    {Missing, Null, Str("A-roll"), Str("B-roll"), Str("C-roll"), Str("D-roll")}

ConfidenceValues ==
    {Missing, Null, Str("high"), Huge, NaN} \cup {Num(n) : n \in {-50, 0, 55, 100, 150}}

ARatioValues ==
    {Missing, Str("half"), Huge, NaN}
        \cup {Num(n) : n \in {-5000, 0, 4, 3334, 3336, 10000, 15000}}

BRatioValues == {Missing, Str("half")} \cup {Num(n) : n \in {0, 6666, 15000}}

ExplanationValues == {Missing, Null, Padded("Face visible.")}

Payloads ==
    [role : RoleValues, confidence : ConfidenceValues, explanation : ExplanationValues,
     a_role_ratio : ARatioValues, b_role_ratio : BRatioValues]

Replies ==
    {[status |-> "ok", kind |-> k, payload |-> p] : k \in {"json", "wrapped"}, p \in Payloads}
        \cup {[status |-> st, kind |-> k, payload |-> EmptyPayload] :
                 st \in {"ok", "error"}, k \in {"empty", "text", "broken", "array"}}

----------------------------------------------------------------------------
(* app/main.py: analyze_rolls                                              *)
(* An image is (source, fetch, reply): source is the (directory, name) of  *)
(* its path or URL, fetch tells whether its data URI could be built, and   *)
(* reply is what classify_frame returns for it, or Raised. Ratios of a     *)
(* frame are in hundredths, the averaged ratios of a segment in            *)
(* thousandths.                                                            *)

FrameRoleFull(id, role, confidence, a_role_ratio, b_role_ratio) ==
    [frame |-> id, role |-> role, confidence |-> confidence,
     a_role_ratio |-> a_role_ratio, b_role_ratio |-> b_role_ratio]

SegmentOut(segment, explanation, a_role_ratio, b_role_ratio) ==
    [start |-> segment.start, end |-> segment.end, role |-> segment.role,
     explanation |-> explanation,
     a_role_ratio |-> a_role_ratio, b_role_ratio |-> b_role_ratio]

DefaultFps == 30

\* fps = req.fps if req.fps and req.fps > 0 else 30
AnalyzeFps(f) == IF ~ IsNone(f) /\ Val(f) /= 0 /\ Val(f) > 0 THEN Val(f) ELSE DefaultFps

\* the values substituted when classify_frame or the download raises
DefaultResult == <<"B-roll", 50, "", 0, 100>>

\* try: classify_frame(...) except Exception: the default
ClassifiedOrDefault(reply) == IF reply = Raised THEN DefaultResult ELSE reply

\* os.path.basename(parsed.path) or "image.jpg"
filename_from_url(url) == IF url[2] = "" THEN "image.jpg" ELSE url[2]

\* the frame name each flow gives the image at index idx
FrameId(source, idx, src) ==
    CASE source = "files" -> src[2]
      [] source = "sheet" -> "frame_" \o Pad2(idx) \o ".jpg"
      [] source = "urls"  -> filename_from_url(src)

DataUri(src) == "data:" \o src[1] \o src[2]

\* explanation_limit = req.max_explanations if it is set and > 0 else None
ExplanationLimit(req) ==
    IF ~ IsNone(req.max_explanations) /\ Val(req.max_explanations) /= 0
          /\ Val(req.max_explanations) > 0
    THEN req.max_explanations ELSE None

\* variant: the segment at index explanation_limit is explained too
SegmentExplanation_inclusive(req, seg_idx, s_idx, expl) ==
    IF req.include_explanations
          /\ (IsNone(ExplanationLimit(req)) \/ seg_idx <= Val(ExplanationLimit(req)))
    THEN IF 0 <= s_idx /\ s_idx < Len(expl) THEN At(expl, s_idx) ELSE ""
    ELSE ""

\* the explanation of the segment at index seg_idx, whose first frame is s_idx
SegmentExplanation(req, seg_idx, s_idx, expl) ==
    IF req.include_explanations
          /\ (IsNone(ExplanationLimit(req)) \/ seg_idx < Val(ExplanationLimit(req)))
    THEN IF 0 <= s_idx /\ s_idx < Len(expl) THEN At(expl, s_idx) ELSE ""
    ELSE ""

RECURSIVE SumRatio(_, _, _, _)
SumRatio(fr, key, s_idx, e_idx) ==
    IF s_idx >= e_idx THEN 0
    ELSE At(fr, s_idx)[key] + SumRatio(fr, key, s_idx + 1, e_idx)

\* round(sum / len, 3) of a ratio over frames[s_idx:e_idx]: both values when
\* the quotient is a tie the float may round either way
AveragedRatio(fr, key, s_idx, e_idx) ==
    IF s_idx >= e_idx THEN {0}
    ELSE {RoundQuotient(10 * SumRatio(fr, key, s_idx, e_idx), e_idx - s_idx, up) :
             up \in BOOLEAN}

\* the loop over segments_with_idx: the lists segments_out may become
RECURSIVE SegmentsOutLoop(_, _, _, _, _)
SegmentsOutLoop(req, g, fr, expl, n) ==
    IF n = 0 THEN {<<>>}
    ELSE {Append(out, SegmentOut(g[n][1],
                                 SegmentExplanation(req, n - 1, g[n][2], expl), a, b)) :
             out \in SegmentsOutLoop(req, g, fr, expl, n - 1),
             a \in AveragedRatio(fr, "a_role_ratio", g[n][2], g[n][3]),
             b \in AveragedRatio(fr, "b_role_ratio", g[n][2], g[n][3])}

Source == Val(request).source

AnalyzeRunning == op = "analyze" /\ pc = "frames" /\ image_idx < Len(images)

\* no files in the path, no URLs, or the sprite sheet cannot be sliced: HTTP 400
AnalyzeReject ==
    /\ op = "analyze" /\ pc = "input" /\ images = <<>>
    /\ pc' = "rejected"
    /\ UNCHANGED <<moreVars, op, frames, groupVars, talkVars, scanVars>>

\* the statements before the loops
AnalyzeStart ==
    /\ op = "analyze" /\ pc = "input" /\ images /= <<>>
    /\ fps' = Some(AnalyzeFps(Val(request).fps))
    /\ pc' = "frames"
    /\ UNCHANGED <<moreVars, op, frames, segments, grouped, talkVars, scanVars>>

\* one iteration of a loop: the data URI, classify_frame or the default, three appends
AnalyzeClassify ==
    /\ AnalyzeRunning
    /\ At(images, image_idx).fetch = "ok"
    /\ LET img == At(images, image_idx)
           r   == ClassifiedOrDefault(img.reply)
       IN  /\ frames' = Append(frames,
                   FrameRoleFull(FrameId(Source, image_idx, img.source),
                                 r[1], r[2], r[4], r[5]))
           /\ frame_data_uris' = Append(frame_data_uris, DataUri(img.source))
           /\ explanations' = Append(explanations, r[3])
    /\ image_idx' = image_idx + 1
    /\ UNCHANGED <<op, pc, fps, segments, grouped, min_consecutive, talking_result,
                   scanVars, conf, request, images, segments_out, content, classified, lateVars>>

\* variant: an image whose download fails gets no entry
AnalyzeDownloadFailed_skip ==
    /\ AnalyzeRunning
    /\ Source = "urls" /\ At(images, image_idx).fetch = "fail"
    /\ image_idx' = image_idx + 1
    /\ UNCHANGED <<op, pc, frames, fps, segments, grouped, talkVars, scanVars, conf,
                   request, images, frame_data_uris, segments_out, content, classified, lateVars>>

\* URL flow, url_to_data_uri raises: the default entry, "" as data URI, continue
AnalyzeDownloadFailed ==
    /\ AnalyzeRunning
    /\ Source = "urls" /\ At(images, image_idx).fetch = "fail"
    /\ LET img == At(images, image_idx)
           r   == DefaultResult
       IN  /\ frames' = Append(frames,
                   FrameRoleFull(filename_from_url(img.source), r[1], r[2], r[4], r[5]))
           /\ frame_data_uris' = Append(frame_data_uris, "")
           /\ explanations' = Append(explanations, r[3])
    /\ image_idx' = image_idx + 1
    /\ UNCHANGED <<op, pc, fps, segments, grouped, min_consecutive, talking_result,
                   scanVars, conf, request, images, segments_out, content, classified, lateVars>>

\* files and tiles: the data URI is built outside the try, its exception ends the request
AnalyzeReadFailed ==
    /\ AnalyzeRunning
    /\ Source \in {"files", "sheet"} /\ At(images, image_idx).fetch = "fail"
    /\ pc' = "failed"
    /\ UNCHANGED <<moreVars, op, frames, groupVars, talkVars, scanVars>>

\* the statements after the loops, up to the return
AnalyzeFinish ==
    /\ op = "analyze" /\ pc = "frames" /\ image_idx = Len(images)
    /\ talking_result' =
          Some(detect_talking_head(frames, explanations, DefaultMinConsecutive))
    /\ LET segments_with_idx == group_frames_with_indices(frames, fps)
       IN  /\ grouped' = Some(segments_with_idx)
           /\ \E out \in SegmentsOutLoop(Val(request), segments_with_idx, frames,
                                         explanations, Len(segments_with_idx)) :
                 segments_out' = Some(out)
    /\ \E up \in [RoleType -> BOOLEAN] :
          conf' = Some(average_confidence_by_role(frames, up))
    /\ pc' = "done"
    /\ UNCHANGED <<op, frames, fps, segments, explanations, min_consecutive, scanVars,
                   request, images, frame_data_uris, image_idx, content, classified, lateVars>>

----------------------------------------------------------------------------
(* Operations on the frame list                                            *)

GroupFramesToSegments ==
    /\ op = "group" /\ IsNone(segments)
    /\ segments' = Some(group_frames_to_segments(frames, fps))
    /\ UNCHANGED <<moreVars, op, pc, frames, fps, grouped, talkVars, scanVars>>

GroupFramesWithIndices ==
    /\ op = "group" /\ IsNone(grouped)
    /\ grouped' = Some(group_frames_with_indices(frames, fps))
    /\ UNCHANGED <<moreVars, op, pc, frames, fps, segments, talkVars, scanVars>>

AverageConfidenceByRole ==
    /\ op = "conf" /\ IsNone(conf)
    /\ \E up \in [RoleType -> BOOLEAN] :
          conf' = Some(average_confidence_by_role(frames, up))
    /\ UNCHANGED <<op, pc, groupVars, talkVars, scanVars, request, images,
                   frame_data_uris, image_idx, segments_out, content, classified, lateVars>>

DetectTalkingHead ==
    /\ op \in {"group", "talk"} /\ IsNone(talking_result)
    /\ talking_result' = Some(detect_talking_head(frames, explanations, min_consecutive))
    /\ UNCHANGED <<moreVars, op, pc, groupVars, explanations, min_consecutive, scanVars>>

----------------------------------------------------------------------------
(* Inputs                                                                  *)

FrameName(i) == "frame_" \o ToString(i) \o ".jpg"

\* a frame list whose i-th frame has the role, confidence and ratio of kinds[i]
MkFrames(kinds) ==
    [i \in 1..Len(kinds) |->
        FrameRole(FrameName(i - 1), kinds[i][1], kinds[i][2], kinds[i][3])]

\* one frame per role for the grouper
GroupKinds == {<<r, 90, 80>> : r \in RoleType}

GroupInputs == {MkFrames(k) : k \in SeqsUpTo(GroupKinds, MaxGroupFrames)}

\* frames of every role with the least, a middle and the greatest confidence
ConfKinds == {<<r, c, 80>> : r \in RoleType, c \in {0, 55, 100}}

ConfInputs == {MkFrames(k) : k \in SeqsUpTo(ConfKinds, MaxConfFrames)}

FpsInputs == {None} \cup {Some(f) : f \in (-1)..MaxFps}

\* frames on both sides of each test of the detector
Qual     == <<"A-roll", 55, 35>>
Strong   == <<"A-roll", 90, 80>>
LowConf  == <<"A-roll", 54, 35>>
LowRatio == <<"A-roll", 55, 34>>
Support  == <<"B-roll", 90, 80>>

TalkKinds == {Qual, LowConf, LowRatio, Support}

\* explanation lists of length 0..n+1: entry i is a text naming i, or empty on the
\* positions of a pattern (none, all, odd, even)
ExplanationInputs(n) ==
    {[i \in 1..l |-> IF (i % 2) \in b THEN "" ELSE "note " \o ToString(i - 1)] :
        l \in 0..(n + 1), b \in {{}, {0}, {1}, {0, 1}}}

\* ten frames, five consecutive qualifying ones from index k on
FiveOfTen(k) == MkFrames([i \in 1..10 |-> IF i - 1 \in k..(k + 4) THEN Strong ELSE Support])

\* ten frames, exactly two qualifying ones, at indices a and b
TwoOfTen(a, b) == MkFrames([i \in 1..10 |-> IF i - 1 \in {a, b} THEN Strong ELSE Support])

TenFrameInputs ==
    {FiveOfTen(k) : k \in 0..5}
    \cup {TwoOfTen(a, b) : a \in 0..9, b \in 0..9}

FullExplanations(n) == [i \in 1..n |-> "note " \o ToString(i - 1)]

TalkInputs ==
    {<<MkFrames(k), e>> : k \in SeqsUpTo(TalkKinds, MaxTalkFrames),
                          e \in ExplanationInputs(MaxTalkFrames)}
    \cup {<<f, FullExplanations(10)>> : f \in TenFrameInputs}

ThresholdInputs == 1..MaxThreshold

VideoFpsInputs == {0, 1, 2}

\* (frame_count, fps, outcome per sampled second) of videos of at most MaxSeconds seconds
ScanInputs ==
    {<<c, f, v>> : c \in 0..(2 * MaxSeconds + 1), f \in VideoFpsInputs,
                   v \in UNION {[0..s -> Outcomes] : s \in 0..MaxSeconds}}

\* 10.0 s, the speaker present for t in 0..4 and absent for t in 5..10
TenSecondVideo == <<300, 30, [t \in 0..10 |-> IF t <= 4 THEN "present" ELSE "absent"]>>

IsScanInput(x) ==
    /\ DOMAIN x[3] = 0..IntOf(get_video_duration(x[1], x[2]))
    /\ x[2] = 0 => x[1] <= 1
    /\ x[2] = 1 => x[1] <= MaxSeconds

\* what classify_frame may return for a frame
ClassifierResults ==
    {<<"A-roll", 90, "Speaker faces the camera.", 80, 20>>,
     <<"B-roll", 80, "Screen recording.", 10, 90>>}

\* download and classification outcomes of one image
ImageOutcomes ==
    {<<"ok", r>> : r \in ClassifierResults \cup {Raised}} \cup {<<"fail", Raised>>}

Image(src, outcome) == [source |-> src, fetch |-> outcome[1], reply |-> outcome[2]]

\* the sorted files of a directory / the tiles of a sheet
FileImages ==
    {[i \in 1..Len(o) |-> Image(<<"/frames/clip/", FrameName(i - 1)>>, o[i])] :
        o \in SeqsUpTo(ImageOutcomes, MaxImages)}

\* URLs: one name that may repeat, and one URL whose path has no name
UrlKinds ==
    {<<<<"https://cdn/clip/", "shot.jpg">>, o>> : o \in ImageOutcomes}
        \cup {<<<<"https://cdn/clip/", "">>, <<"ok", r>>>> : r \in ClassifierResults}

UrlImages ==
    {[i \in 1..Len(k) |-> Image(k[i][1], k[i][2])] : k \in SeqsUpTo(UrlKinds, MaxImages)}

\* every rate with explanations off, every explanation cap with the rate absent
RequestOptions ==
    {[fps |-> f, include_explanations |-> FALSE, max_explanations |-> None] :
        f \in FpsInputs}
    \cup {[fps |-> None, include_explanations |-> TRUE, max_explanations |-> m] :
             m \in {None, Some(-1), Some(0), Some(1), Some(2)}}
    \cup {[fps |-> None, include_explanations |-> FALSE, max_explanations |-> Some(1)]}

AnalyzeRequest(source, o) ==
    [source |-> source, fps |-> o.fps, include_explanations |-> o.include_explanations,
     max_explanations |-> o.max_explanations]

----------------------------------------------------------------------------
(* Specifications                                                          *)

IdleAnalyze ==
    /\ request = None /\ images = <<>> /\ frame_data_uris = <<>> /\ segments_out = None
    /\ image_idx = 0

IdleClassify ==
    /\ content = None /\ classified = None

IdleScript == script = None

IdleBroll == invocations = <<>> /\ files = <<>>

IdleGroup ==
    /\ fps = None /\ segments = None /\ grouped = None

IdleTalk ==
    /\ explanations = <<>> /\ min_consecutive = DefaultMinConsecutive
    /\ talking_result = None

IdleScan ==
    /\ frame_count = 0 /\ video_fps = 0 /\ video = <<>> /\ time_sec = 0
    /\ last_talking_head_time = None /\ disappear_time = None /\ calls = <<>>
    /\ extractions = <<>>
    /\ disappear_time_with_buffer = None /\ time_start = None /\ time_end = None

InitGroup ==
    /\ op = "group" /\ pc = "input"
    /\ frames \in GroupInputs
    /\ fps \in FpsInputs
    /\ segments = None /\ grouped = None /\ conf = None
    /\ IdleTalk /\ IdleScan /\ IdleAnalyze /\ IdleClassify
    /\ IdleScript /\ IdleBroll

NextGroup == GroupFramesToSegments \/ GroupFramesWithIndices \/ DetectTalkingHead

SpecGroup == InitGroup /\ [][NextGroup]_vars

InitConf ==
    /\ op = "conf" /\ pc = "input"
    /\ frames \in ConfInputs
    /\ conf = None
    /\ IdleGroup /\ IdleTalk /\ IdleScan /\ IdleAnalyze /\ IdleClassify
    /\ IdleScript /\ IdleBroll

NextConf == AverageConfidenceByRole

SpecConf == InitConf /\ [][NextConf]_vars

InitClassify ==
    /\ op = "classify" /\ pc = "input"
    /\ content \in {Some(c) : c \in Replies}
    /\ classified = None
    /\ frames = <<>> /\ conf = None
    /\ IdleGroup /\ IdleTalk /\ IdleScan /\ IdleAnalyze
    /\ IdleScript /\ IdleBroll

NextClassify == ClassifyFrame

SpecClassify == InitClassify /\ [][NextClassify]_vars

InitAnalyze ==
    /\ op = "analyze" /\ pc = "input"
    /\ \E source \in {"files", "sheet", "urls"}, o \in RequestOptions :
          /\ request = Some(AnalyzeRequest(source, o))
          /\ images \in IF source = "urls" THEN UrlImages ELSE FileImages
    /\ frames = <<>> /\ frame_data_uris = <<>> /\ image_idx = 0
    /\ segments_out = None /\ conf = None
    /\ IdleGroup /\ IdleTalk /\ IdleScan /\ IdleClassify
    /\ IdleScript /\ IdleBroll

NextAnalyze ==
    \/ AnalyzeReject
    \/ AnalyzeStart
    \/ AnalyzeClassify
    \/ AnalyzeDownloadFailed
    \/ AnalyzeReadFailed
    \/ AnalyzeFinish

SpecAnalyze == InitAnalyze /\ [][NextAnalyze]_vars

InitTalk ==
    /\ op = "talk" /\ pc = "input"
    /\ \E x \in TalkInputs : frames = x[1] /\ explanations = x[2]
    /\ min_consecutive \in ThresholdInputs
    /\ talking_result = None
    /\ conf = None /\ IdleGroup /\ IdleScan /\ IdleAnalyze /\ IdleClassify
    /\ IdleScript /\ IdleBroll

NextTalk == DetectTalkingHead

SpecTalk == InitTalk /\ [][NextTalk]_vars

InitScan ==
    /\ op = "scan" /\ pc = "loop"
    /\ \E x \in {y \in ScanInputs : IsScanInput(y)} \cup {TenSecondVideo} :
          frame_count = x[1] /\ video_fps = x[2] /\ video = x[3]
    /\ time_sec = 0
    /\ last_talking_head_time = None /\ disappear_time = None /\ calls = <<>>
    /\ extractions = <<>>
    /\ disappear_time_with_buffer = None /\ time_start = None /\ time_end = None
    /\ frames = <<>> /\ conf = None
    /\ IdleGroup /\ IdleTalk /\ IdleAnalyze /\ IdleClassify
    /\ IdleScript /\ IdleBroll

NextScan ==
    \/ ScanSkipFrame
    \/ ScanHeadPresent
    \/ ScanHeadDisappeared
    \/ ScanHeadAbsent
    \/ ScanFinish

SpecScan == InitScan /\ [][NextScan]_vars

\* the scan is one sequential loop: a step that can run does run
SpecScanFair == SpecScan /\ WF_vars(NextScan)

\* both scans on one video: the API's first, then the script's
InitScript ==
    /\ op = "scan" /\ pc = "loop"
    /\ \E x \in {y \in ScanInputs : IsScanInput(y)} \cup {TenSecondVideo} :
          frame_count = x[1] /\ video_fps = x[2] /\ video = x[3]
    /\ time_sec = 0
    /\ last_talking_head_time = None /\ disappear_time = None /\ calls = <<>>
    /\ extractions = <<>>
    /\ disappear_time_with_buffer = None /\ time_start = None /\ time_end = None
    /\ frames = <<>> /\ conf = None
    /\ IdleGroup /\ IdleTalk /\ IdleAnalyze /\ IdleClassify
    /\ script = Some(ScriptLocals) /\ IdleBroll

NextScript == NextScan \/ ScriptIteration \/ ScriptFinish

SpecScript == InitScript /\ [][NextScript]_vars

\* requests in flight in one server process, the temporary directory empty
InitBroll ==
    /\ op = "broll" /\ pc = "serve"
    /\ invocations \in [Invocations -> {[id |-> i, pc |-> "start", status |-> 0,
                                          reached |-> FALSE, opened |-> <<>>] :
                                         i \in BrollIds}]
    /\ files = [f \in TempPaths |-> None]
    /\ frames = <<>> /\ conf = None
    /\ IdleGroup /\ IdleTalk /\ IdleScan /\ IdleAnalyze /\ IdleClassify
    /\ IdleScript

NextBroll ==
    \/ BrollGetUrl \/ BrollGetUrlFailed \/ BrollDownload \/ BrollDownloadFailed
    \/ BrollDuration \/ BrollFrames \/ BrollExists \/ BrollUnlink

SpecBroll == InitBroll /\ [][NextBroll]_vars

Init == InitGroup \/ InitTalk \/ InitScan

Next == NextGroup \/ NextScan

Spec == Init /\ [][Next]_vars

----------------------------------------------------------------------------
(* Properties of the segment grouper                                       *)

\* indices i >= 1 whose role differs from the role at i - 1
RoleChanges(fr) == {i \in 1..(Len(fr) - 1) : At(fr, i).role /= At(fr, i - 1).role}

\* first indices of the maximal runs of equal role
RunStarts(fr) == IF fr = <<>> THEN {} ELSE {0} \cup RoleChanges(fr)

\* the k-th (from 1) smallest element of a set of integers
KthOf(S, k) == CHOOSE i \in S : Cardinality({j \in S : j < i}) = k - 1

\* the tuples of group_frames_with_indices are the maximal runs of fr
AreMaximalRuns(g, fr) ==
    /\ Len(g) = 1 + Cardinality(RoleChanges(fr))
    /\ g[1][2] = 0
    /\ g[Len(g)][3] = Len(fr)
    /\ \A k \in 1..(Len(g) - 1) :
          g[k + 1][2] = g[k][3] /\ g[k + 1][1].role /= g[k][1].role
    /\ \A k \in 1..Len(g) :
          /\ g[k][2] < g[k][3]
          /\ \A i \in g[k][2]..(g[k][3] - 1) : At(fr, i).role = g[k][1].role

\* the segments of group_frames_to_segments are, in order, the maximal runs of fr
AreRunSegments(sg, fr) ==
    /\ Len(sg) = 1 + Cardinality(RoleChanges(fr))
    /\ \A k \in 1..Len(sg) : sg[k].role = At(fr, KthOf(RunStarts(fr), k)).role
    /\ \A k \in 1..(Len(sg) - 1) : sg[k + 1].role /= sg[k].role

\* C1: for a non-empty frame list the ranges of group_frames_with_indices and the
\* segments of group_frames_to_segments are exactly the maximal runs of equal
\* role: start at 0, contiguous, end at len(frames), homogeneous, adjacent
\* roles differ, and their number is 1 + the number of role changes.
C1_MaximalRuns ==
    (op = "group" /\ frames /= <<>>) =>
        /\ ~ IsNone(grouped) => AreMaximalRuns(Val(grouped), frames)
        /\ ~ IsNone(segments) => AreRunSegments(Val(segments), frames)

C1_Witness ==
    /\ op = "group" /\ Len(frames) = 5
    /\ ~ IsNone(grouped) /\ ~ IsNone(segments)
    /\ Len(Val(grouped)) = 3 /\ Len(Val(segments)) = 3
    /\ Val(grouped)[2][2] = 1 /\ Val(grouped)[2][3] = 4

----------------------------------------------------------------------------
(* Properties of the disappearance scan                                    *)

ScanDone == op = "scan" /\ pc = "done"

Sampled == 0..IntOf(duration)

\* seconds whose frame was extracted and whose presence check is false, after
\* some earlier second whose presence check was true
Transitions ==
    {t \in Sampled : /\ video[t] \in {"absent", "error"}
                     /\ \E u \in 0..(t - 1) : video[u] = "present"}

Smallest(S) == CHOOSE t \in S : \A u \in S : t <= u

\* C2: disappear_time is the smallest sampled second whose frame was extracted,
\* whose presence check is false and which follows a second with presence true,
\* whatever the later seconds hold; without such a second it is floor(D).
C2_FirstTransition ==
    ScanDone =>
        disappear_time = Some(IF Transitions = {} THEN IntOf(duration)
                              ELSE Smallest(Transitions))

\* the speaker re-appears after the first transition, and an unavailable frame
\* lies between a present second and the transition
C2_Witness ==
    /\ ScanDone
    /\ Transitions /= {}
    /\ disappear_time = Some(Smallest(Transitions))
    /\ \E t \in Sampled : t > Smallest(Transitions) /\ video[t] = "present"
    /\ \E t \in Sampled : t < Smallest(Transitions) /\ video[t] = "noframe"
                          /\ \E u \in 0..(t - 1) : video[u] = "present"

\* HH:MM:SS of n seconds: the h, m < 60, sec < 60 with 3600 h + 60 m + sec = n
Stamp(n) ==
    LET h == n \div 3600
        m == (n - 3600 * h) \div 60
        sec == n - 3600 * h - 60 * m
    IN  Pad2(h) \o ":" \o Pad2(m) \o ":" \o Pad2(sec)

\* C3: time_start is the timestamp of min(disappear_time + 1, floor(D)) and
\* time_end that of floor(D), so time_start is not after time_end; the 10.0 s
\* video with presence on 0..4 only gives "00:00:06" and "00:00:10".
C3_BufferedWindow ==
    ScanDone =>
        /\ time_start = Some(Stamp(Min(Val(disappear_time) + 1, IntOf(duration))))
        /\ time_end = Some(Stamp(IntOf(duration)))
        /\ Val(disappear_time_with_buffer) <= IntOf(duration)
        /\ time_start = Some(Stamp(Val(disappear_time_with_buffer)))
        /\ (<<frame_count, video_fps, video>> = TenSecondVideo =>
               /\ disappear_time = Some(5)
               /\ time_start = Some("00:00:06")
               /\ time_end = Some("00:00:10"))

C3_Witness ==
    /\ ScanDone
    /\ <<frame_count, video_fps, video>> = TenSecondVideo
    /\ time_start = Some("00:00:06") /\ time_end = Some("00:00:10")

\* the loop was left by break: a transition was found
FoundTransition == ScanDone /\ time_sec <= IntOf(duration)

\* C4 (as claimed): when a transition is found, no sampled second from the
\* reported time_start to floor(D) has a presence check that answers true.
C4_NoSpeakerAfterStart ==
    FoundTransition =>
        \A t \in Sampled :
            t >= Val(disappear_time_with_buffer) => video[t] /= "present"

\* every second whose frame was extracted answers true / no second answers true
AlwaysPresent == \A t \in Sampled : video[t] \in {"present", "noframe"}
NeverPresent == \A t \in Sampled : video[t] /= "present"

\* C5: with presence true at every sampled second, or at none, no transition is
\* found, disappear_time is floor(D) and time_start equals time_end, the
\* timestamp of floor(D).
C5_NoTransitionFallback ==
    (ScanDone /\ (AlwaysPresent \/ NeverPresent)) =>
        /\ ~ FoundTransition
        /\ disappear_time = Some(IntOf(duration))
        /\ time_start = time_end
        /\ time_end = Some(Stamp(IntOf(duration)))

C5_Witness ==
    /\ ScanDone /\ IntOf(duration) >= 3
    /\ \A t \in Sampled : video[t] = "present"
    /\ time_start = time_end /\ disappear_time = Some(IntOf(duration))

----------------------------------------------------------------------------
(* Properties of the talking-head detector                                 *)

TalkDone == op = "talk" /\ ~ IsNone(talking_result)

\* indices of the frames that qualify
QualifyingSet(fr) ==
    {i \in 0..(Len(fr) - 1) : /\ At(fr, i).role = "A-roll"
                              /\ At(fr, i).confidence >= 55
                              /\ At(fr, i).a_role_ratio >= 35}

\* the greatest n such that n consecutive indices all lie in S
LongestRunOf(S, len) ==
    LET runs == {n \in 0..len : \E a \in 0..(len - n) : \A i \in a..(a + n - 1) : i \in S}
    IN  CHOOSE n \in runs : \A m \in runs : m <= n

\* C6: is_talkinghead is true exactly when the longest run of qualifying frames
\* reaches the threshold, or the qualifying count reaches it and is at least a
\* fifth of the frames; five consecutive qualifying frames among ten give true
\* with threshold 3.
C6_DecisionRule ==
    TalkDone =>
        LET q == QualifyingSet(frames)
            run == LongestRunOf(q, Len(frames))
        IN  /\ Val(talking_result).is_talkinghead
                <=> \/ run >= min_consecutive
                    \/ /\ Cardinality(q) >= min_consecutive
                       /\ 5 * Cardinality(q) >= Len(frames)
            /\ ((\E k \in 0..5 : frames = FiveOfTen(k)) /\ min_consecutive = 3)
                   => Val(talking_result).is_talkinghead

C6_Witness ==
    /\ TalkDone
    /\ frames = FiveOfTen(2) /\ min_consecutive = DefaultMinConsecutive
    /\ Val(talking_result).is_talkinghead

\* C7: with fewer qualifying frames than the threshold (>= 1) is_talkinghead is
\* false, as for ten frames with two non-consecutive qualifying ones and
\* threshold 3.
C7_FewQualifyingIsFalse ==
    (TalkDone /\ min_consecutive >= 1
              /\ Cardinality(QualifyingSet(frames)) < min_consecutive)
        => ~ Val(talking_result).is_talkinghead

C7_Witness ==
    /\ TalkDone
    /\ frames = TwoOfTen(2, 7) /\ min_consecutive = DefaultMinConsecutive
    /\ Cardinality(QualifyingSet(frames)) = 2
    /\ ~ Val(talking_result).is_talkinghead

\* r is num/den rounded to an integer (a tie may go either way)
IsRounded(r, num, den) == 2 * (r * den - num) <= den /\ 2 * (num - r * den) <= den

\* C8: confidence is min(0.99, round(0.6 coverage + 0.4 min(1, run/(threshold+1)), 3))
\* when is_talkinghead and round(0.5 coverage, 3) otherwise, hence within [0, 1]:
\* at most 0.99 when talking-head, at most 0.5 otherwise (in thousandths).
C8_ConfidenceRange ==
    TalkDone =>
        LET r == Val(talking_result)
            q == Cardinality(QualifyingSet(frames))
            n == Max(1, Len(frames))
            run == Min(LongestRunOf(QualifyingSet(frames), n), min_consecutive + 1)
            t == min_consecutive + 1
        IN  /\ r.confidence \in 0..1000
            /\ r.is_talkinghead =>
                  /\ r.confidence <= 990
                  /\ \E x \in 0..1000 :
                        /\ IsRounded(x, 600 * q * t + 400 * run * n, n * t)
                        /\ r.confidence = Min(990, x)
            /\ ~ r.is_talkinghead =>
                  /\ r.confidence <= 500
                  /\ IsRounded(r.confidence, 500 * q, n)

\* every frame qualifies and the run exceeds the threshold: the score 1.0 is capped
C8_Witness ==
    /\ TalkDone
    /\ Len(frames) = 3 /\ Cardinality(QualifyingSet(frames)) = 3 /\ min_consecutive = 2
    /\ Val(talking_result).is_talkinghead
    /\ Val(talking_result).confidence = 990

\* C9: the evidence has min(3, number of qualifying frames) entries; entry k is
\* the k-th qualifying frame in original order with its explanation, or with
\* "Face-forward frame." when that explanation is empty or beyond the list.
C9_Evidence ==
    TalkDone =>
        LET ev == Val(talking_result).evidence
            q == QualifyingSet(frames)
        IN  /\ Len(ev) = Min(3, Cardinality(q))
            /\ \A k \in 1..Len(ev) :
                  LET i == KthOf(q, k)
                  IN  /\ ev[k].frame = At(frames, i).frame
                      /\ ev[k].description =
                            IF i >= Len(explanations) \/ explanations[i + 1] = ""
                            THEN "Face-forward frame."
                            ELSE explanations[i + 1]

\* four qualifying frames of which three are reported: an empty explanation, a
\* text, and an index beyond the explanation list
C9_Witness ==
    /\ TalkDone
    /\ Cardinality(QualifyingSet(frames)) = 4
    /\ explanations = <<"", "note 1">>
    /\ Len(Val(talking_result).evidence) = 3
    /\ Val(talking_result).evidence[1].description = "Face-forward frame."
    /\ Val(talking_result).evidence[2] = [frame |-> "frame_1.jpg", description |-> "note 1"]
    /\ Val(talking_result).evidence[3].description = "Face-forward frame."

\* C10: for an empty frame list both groupers return the empty list and the
\* detector returns (false, 0.0, no evidence).
C10_EmptyInput ==
    (op \in {"group", "talk"} /\ frames = <<>>) =>
        /\ ~ IsNone(segments) => Val(segments) = <<>>
        /\ ~ IsNone(grouped) => Val(grouped) = <<>>
        /\ ~ IsNone(talking_result) =>
              Val(talking_result) = [is_talkinghead |-> FALSE, confidence |-> 0,
                                     evidence |-> <<>>]

C10_Witness ==
    /\ op = "group" /\ frames = <<>>
    /\ segments = Some(<<>>) /\ grouped = Some(<<>>)
    /\ talking_result = Some([is_talkinghead |-> FALSE, confidence |-> 0,
                              evidence |-> <<>>])

----------------------------------------------------------------------------
(* Properties of the confidence aggregator                                 *)

\* indices of the frames of a role
IndicesOf(fr, role) == {i \in 0..(Len(fr) - 1) : At(fr, i).role = role}

\* sum of the confidences (hundredths) of the frames at the indices S
RECURSIVE ConfidenceSum(_, _)
ConfidenceSum(fr, S) ==
    IF S = {} THEN 0
    ELSE LET i == CHOOSE j \in S : TRUE
         IN  At(fr, i).confidence + ConfidenceSum(fr, S \ {i})

\* C11: the keys of average_confidence_by_role are exactly the roles that occur
\* in the frames; each value is the mean confidence of the role's frames rounded
\* to 3 decimals and lies in [0, 1] (confidences in [0, 1]).
C11_AverageConfidence ==
    (op = "conf" /\ ~ IsNone(conf)) =>
        LET c == Val(conf)
        IN  /\ DOMAIN c = {At(frames, i).role : i \in 0..(Len(frames) - 1)}
            /\ \A k \in DOMAIN c :
                  /\ IsRounded(c[k], 10 * ConfidenceSum(frames, IndicesOf(frames, k)),
                               Cardinality(IndicesOf(frames, k)))
                  /\ c[k] \in 0..1000

\* two roles occur and the third does not; one mean is not a multiple of 0.001
C11_Witness ==
    /\ op = "conf" /\ ~ IsNone(conf)
    /\ DOMAIN Val(conf) = {"A-roll", "C-roll"}
    /\ Cardinality(IndicesOf(frames, "A-roll")) = 3
    /\ ConfidenceSum(frames, IndicesOf(frames, "A-roll")) = 155
    /\ Val(conf)["A-roll"] = 517
    /\ Val(conf)["C-roll"] = 1000

----------------------------------------------------------------------------
(* Properties of the segment timecodes                                     *)

\* the rate the grouper is specified to use: fps, or 1 when absent or not positive
EffectiveFps(f) == IF ~ IsNone(f) /\ Val(f) > 0 THEN Val(f) ELSE 1

\* "MM:SS" of a whole number of seconds
Timecode(t) == Pad2(t \div 60) \o ":" \o Pad2(t % 60)

\* the segments sg of n frames at rate f chain from "00:00" to the timecode of n / f
TimecodesChain(sg, n, f) ==
    /\ sg[1].start = "00:00"
    /\ \A k \in 1..(Len(sg) - 1) : sg[k + 1].start = sg[k].end
    /\ \E t \in 0..n : IsRounded(t, n, f) /\ sg[Len(sg)].end = Timecode(t)
    /\ \A k \in 1..Len(sg) :
          \E a \in 0..n, b \in 0..n :
              a <= b /\ sg[k].start = Timecode(a) /\ sg[k].end = Timecode(b)

\* C12: the first segment starts at "00:00", every later segment starts at the
\* preceding segment's end timecode, the last segment ends at the timecode of
\* len(frames) / fps, and no segment starts after its end.
C12_TimecodesChain ==
    (op = "group" /\ frames /= <<>>) =>
        /\ ~ IsNone(segments) =>
              TimecodesChain(Val(segments), Len(frames), EffectiveFps(fps))
        /\ ~ IsNone(grouped) =>
              TimecodesChain([k \in 1..Len(Val(grouped)) |-> Val(grouped)[k][1]],
                             Len(frames), EffectiveFps(fps))

\* five frames in three segments at 2 fps: 2.5 s rounds to "00:02"
C12_Witness ==
    /\ op = "group" /\ Len(frames) = 5 /\ fps = Some(2)
    /\ ~ IsNone(segments) /\ ~ IsNone(grouped)
    /\ Len(Val(segments)) = 3
    /\ Val(segments)[1].start = "00:00"
    /\ Val(segments)[2].start = Val(segments)[1].end
    /\ Val(segments)[3].end = "00:02"
    /\ Val(grouped)[3][1].end = "00:02"

\* a rate that is absent, zero or negative
NoRate(f) == IsNone(f) \/ Val(f) <= 0

\* C14: both groupers called with fps None, 0 or negative return the same
\* segments (roles and timecodes) as when called with fps = 1.
C14_NoRateIsOne ==
    (op = "group" /\ NoRate(fps)) =>
        /\ ~ IsNone(segments) =>
              Val(segments) = group_frames_to_segments(frames, Some(1))
        /\ ~ IsNone(grouped) =>
              Val(grouped) = group_frames_with_indices(frames, Some(1))

\* three frames in two segments with a negative rate: one second per frame
C14_Witness ==
    /\ op = "group" /\ fps = Some(-1) /\ Len(frames) = 3
    /\ ~ IsNone(segments) /\ ~ IsNone(grouped)
    /\ Len(Val(segments)) = 2 /\ Len(Val(grouped)) = 2
    /\ Val(segments)[2].end = "00:03"
    /\ Val(grouped)[2][1].end = "00:03"

\* one frame per segment, carrying the segment's role
OneFramePerSegment(sg) ==
    [k \in 1..Len(sg) |-> FrameRole(FrameName(k - 1), sg[k].role, 90, 80)]

\* n frames, each carrying the role of the tuple of g whose index range holds it
KeepFrameCounts(g, n) ==
    [i \in 1..n |->
        FrameRole(FrameName(i - 1),
                  g[CHOOSE k \in 1..Len(g) : g[k][2] <= i - 1 /\ i - 1 < g[k][3]][1].role,
                  90, 80)]

RolesOf(sg) == [k \in 1..Len(sg) |-> sg[k].role]

\* C15: grouping again the frames rebuilt from the grouper's own segments gives
\* the same segment count and role order with one frame per segment, and the
\* identical segments, timecodes included, when the original frame counts are kept.
C15_RegroupIdempotent ==
    op = "group" =>
        /\ ~ IsNone(segments) =>
              RolesOf(group_frames_to_segments(OneFramePerSegment(Val(segments)), fps))
                  = RolesOf(Val(segments))
        /\ ~ IsNone(grouped) =>
              LET g  == Val(grouped)
                  sg == [k \in 1..Len(g) |-> g[k][1]]
                  re == KeepFrameCounts(g, Len(frames))
              IN  /\ group_frames_with_indices(re, fps) = g
                  /\ group_frames_to_segments(re, fps) = sg
                  /\ RolesOf([k \in 1..Len(g) |->
                         group_frames_with_indices(OneFramePerSegment(sg), fps)[k][1]])
                       = RolesOf(sg)

\* five frames in runs of 2, 1 and 2 regrouped into the same three segments
C15_Witness ==
    /\ op = "group" /\ Len(frames) = 5 /\ fps = Some(2)
    /\ ~ IsNone(segments) /\ ~ IsNone(grouped)
    /\ Len(Val(grouped)) = 3
    /\ Val(grouped)[1][3] = 2 /\ Val(grouped)[2][3] = 3
    /\ Len(group_frames_to_segments(OneFramePerSegment(Val(segments)), fps)) = 3
    /\ group_frames_with_indices(KeepFrameCounts(Val(grouped), 5), fps) = Val(grouped)

----------------------------------------------------------------------------
(* Properties of the scan's steps                                          *)

StrictlyIncreasing(sq) == \A i \in 1..(Len(sq) - 1) : sq[i] < sq[i + 1]

RangeOf(sq) == {sq[i] : i \in 1..Len(sq)}

\* extractions and presence checks run in increasing order of sample second,
\* a check only on an extracted second, neither more than floor(D)+1 times
ScanInOrder ==
    /\ StrictlyIncreasing(extractions) /\ StrictlyIncreasing(calls)
    /\ RangeOf(calls) \subseteq RangeOf(extractions)
    /\ RangeOf(extractions) \subseteq Sampled
    /\ Len(extractions) <= IntOf(duration) + 1
    /\ Len(calls) <= IntOf(duration) + 1

\* a step taken with disappear_time set invokes nothing
NoInvocationAfterDisappear ==
    ~ IsNone(disappear_time) => calls' = calls /\ extractions' = extractions

\* C19: the scan extracts frames and checks presence in strictly increasing
\* order of sample second, at most once per second and at most floor(D)+1 times;
\* once disappear_time is set nothing more is invoked; the scan terminates.
C19_LinearScan ==
    /\ [](op = "scan" => ScanInOrder)
    /\ [][NoInvocationAfterDisappear]_vars
    /\ <>(pc = "done")

\* a scan that ended at a transition before the last second, having skipped a frame
C19_Witness ==
    /\ FoundTransition
    /\ Len(extractions) < IntOf(duration) + 1
    /\ Len(calls) >= 2 /\ Len(calls) < Len(extractions)
    /\ extractions[Len(extractions)] = Val(disappear_time)

\* a step on a second whose frame is unavailable checks nothing and leaves
\* last_talking_head_time and disappear_time alone
SkipLeavesState ==
    (op = "scan" /\ InLoop /\ video[time_sec] = "noframe") =>
        /\ calls' = calls
        /\ last_talking_head_time' = last_talking_head_time
        /\ disappear_time' = disappear_time
        /\ time_sec' = time_sec + 1

\* unavailable seconds that follow a present second and precede an available one
UnavailableBetween ==
    {t \in Sampled : /\ video[t] = "noframe"
                     /\ \E u \in 0..(t - 1) : video[u] = "present"
                     /\ \E w \in Sampled : w > t /\ video[w] /= "noframe"}

\* C20: a second whose frame extraction fails is skipped: no presence check is
\* invoked for it, last_talking_head_time and disappear_time do not change, and
\* an unavailable second between a present second and the next available
\* second is never the reported disappearance second.
C20_SkipUnavailable ==
    /\ [][SkipLeavesState]_vars
    /\ [](op = "scan" =>
            /\ \A i \in 1..Len(calls) : video[calls[i]] /= "noframe"
            /\ ~ IsNone(disappear_time) => Val(disappear_time) \notin UnavailableBetween)

\* present, unavailable, absent: the absent second is reported, not the unavailable one
C20_Witness ==
    /\ ScanDone
    /\ \E t \in UnavailableBetween :
          /\ video[t - 1] = "present" /\ video[t + 1] = "absent"
          /\ disappear_time = Some(t + 1)
          /\ t \in RangeOf(extractions) /\ t \notin RangeOf(calls)

----------------------------------------------------------------------------
(* Properties of the frame classifier                                      *)

Returned == op = "classify" /\ ~ IsNone(classified) /\ Val(classified) /= Raised

\* the JSON object the reply was parsed into
Parsed == Val(PayloadOf(Val(content)))

IsNum(v) == v /= Missing /\ v[1] = "num"

\* a value that is a number: a float, or nan
Numeric(v) == v /= Missing /\ v[1] \in {"num", "nan"}

Clamped(n, one) == IF n < 0 THEN 0 ELSE IF n > one THEN one ELSE n

\* the ratio of a key before the role-based default: the number clamped, 0.0
\* for a missing or non-numeric value
RatioBeforeDefault(v) == IF IsNum(v) THEN Clamped(v[2], RatioOne) ELSE 0

RoleDefault(role) ==
    IF role = "A-roll" THEN <<900, 100>>
    ELSE IF role = "B-roll" THEN <<0, 1000>> ELSE <<200, 800>>

----------------------------------------------------------------------------
(* Properties of analyze_rolls                                             *)

AnalyzeDone == op = "analyze" /\ pc = "done"

TimecodesOf(sg) == [k \in 1..Len(sg) |-> <<sg[k].start, sg[k].end>>]

\* C13 (as claimed): analyze_rolls treats an absent or non-positive grouping
\* rate as 1: the timecodes of the returned segments are those of one second
\* per frame.
C13_AbsentRateIsOne ==
    (AnalyzeDone /\ NoRate(Val(request).fps)) =>
        TimecodesOf(Val(segments_out))
            = TimecodesOf([k \in 1..Len(group_frames_with_indices(frames, Some(1))) |->
                              group_frames_with_indices(frames, Some(1))[k][1]])

\* the image at index i failed: its download or its classification raised
ImageFailed(img) == img.fetch = "fail" \/ img.reply = Raised

\* the entry the image at index i of the request must have
EntryOf(i) ==
    LET img == At(images, i)
        id  == FrameId(Source, i, img.source)
    IN  IF ImageFailed(img) THEN FrameRoleFull(id, "B-roll", 50, 0, 100)
        ELSE FrameRoleFull(id, img.reply[1], img.reply[2], img.reply[4], img.reply[5])

\* C17: analyze_rolls has exactly one FrameRole per input image, in input
\* order, nothing dropped, reordered or deduplicated; an image whose
\* classification or URL download fails has the entry B-roll, 0.5, 0.0, 1.0 with
\* an empty explanation; frame_roles, frame_data_uris and frame_explanations
\* keep the same length and stay index-aligned.
C17_OneEntryPerImage ==
    (op = "analyze" /\ pc \in {"frames", "done"}) =>
        /\ Len(frames) = image_idx
        /\ Len(frame_data_uris) = Len(frames) /\ Len(explanations) = Len(frames)
        /\ pc = "done" => Len(frames) = Len(images)
        /\ \A i \in 0..(Len(frames) - 1) :
              /\ At(frames, i) = EntryOf(i)
              /\ At(explanations, i)
                    = IF ImageFailed(At(images, i)) THEN "" ELSE At(images, i).reply[3]
              /\ At(frame_data_uris, i)
                    = IF At(images, i).fetch = "fail" THEN ""
                      ELSE DataUri(At(images, i).source)

\* three URLs, two of them the same: a failed download, a failed classification
\* and a classified frame
C17_Witness ==
    /\ AnalyzeDone /\ Source = "urls" /\ Len(images) = 3 /\ Len(frames) = 3
    /\ At(images, 0).fetch = "fail"
    /\ At(images, 1).fetch = "ok" /\ At(images, 1).reply = Raised
    /\ At(images, 2).fetch = "ok" /\ At(images, 2).reply[1] = "A-roll"
    /\ At(images, 0).source = At(images, 1).source
    /\ At(frames, 0) = FrameRoleFull("shot.jpg", "B-roll", 50, 0, 100)
    /\ At(frames, 1).role = "B-roll" /\ At(frames, 2).role = "A-roll"
    /\ At(frame_data_uris, 0) = "" /\ At(frame_data_uris, 1) /= ""

\* the explanation the classifier gave the image at index i ("" when it failed)
ClassifierExplanation(i) ==
    IF ImageFailed(At(images, i)) THEN "" ELSE At(images, i).reply[3]

\* max_explanations is unset or not positive
NoCap(req) == IsNone(req.max_explanations) \/ Val(req.max_explanations) <= 0

----------------------------------------------------------------------------
(* Properties of a failed presence check                                   *)

\* the loop is at a second whose frame was extracted and whose check fails
AtFailedCheck == op = "scan" /\ InLoop /\ video[time_sec] = "error"

\* a failed check before any presence: checked once, nothing else changes
FailedBeforePresence ==
    (AtFailedCheck /\ IsNone(last_talking_head_time)) =>
        /\ calls' = Append(calls, time_sec)
        /\ last_talking_head_time' = last_talking_head_time
        /\ disappear_time' = disappear_time
        /\ pc' = pc /\ time_sec' = time_sec + 1

\* a failed check after a presence: checked once, the second is the
\* disappearance second and the loop is left
FailedAfterPresence ==
    (AtFailedCheck /\ ~ IsNone(last_talking_head_time)) =>
        /\ calls' = Append(calls, time_sec)
        /\ disappear_time' = Some(time_sec)
        /\ pc' = "after"

\* seconds whose check fails and whose nearest earlier available second was
\* checked and judged present
FailedAfterPresent ==
    {t \in Sampled :
        /\ video[t] = "error"
        /\ \E p \in 0..(t - 1) :
              /\ video[p] = "present" /\ p \in RangeOf(calls)
              /\ \A u \in (p + 1)..(t - 1) : video[u] = "noframe"}

\* C21: a presence check that fails answers false, without raising and without
\* a second try; a failed check on the first available second after a second
\* judged present ends the scan with disappear_time equal to that second, and
\* a failed check before any presence leaves the scan's state as it was.
C21_FailedCheckIsAbsent ==
    /\ [][FailedBeforePresence /\ FailedAfterPresence]_vars
    /\ [](ScanDone => \A t \in FailedAfterPresent : disappear_time = Some(t))
    /\ [](op = "scan" =>
            \A i \in 1..Len(calls), j \in 1..Len(calls) : calls[i] = calls[j] => i = j)

\* failed at 0 before any presence, present at 1, unavailable at 2, failed at 3
C21_Witness ==
    /\ ScanDone /\ IntOf(duration) >= 4
    /\ video[0] = "error" /\ video[1] = "present"
    /\ video[2] = "noframe" /\ video[3] = "error"
    /\ calls = <<0, 1, 3>>
    /\ last_talking_head_time = Some(1)
    /\ disappear_time = Some(3)

----------------------------------------------------------------------------
(* The script's scan against the API's scan                                *)

ScriptDone == ~ IsNone(script) /\ Val(script).pc = "done"

\* C22 (as claimed): on the same duration, frame availability and presence
\* answers the script's and the API module's find_talking_head_disappear_time
\* return the same (time_start, time_end).
C22_SameWindow ==
    (ScanDone /\ ScriptDone) =>
        <<Val(script).time_start, Val(script).time_end>> = <<time_start, time_end>>

----------------------------------------------------------------------------
(* Simultaneous get_broll_meta invocations                                 *)

Scanning(p) == invocations[p].pc \in {"duration", "frames"}

Finished(p) == invocations[p].pc = "done"

\* C23 (as claimed): while an invocation scans, its path holds the file it
\* downloaded (no other invocation has overwritten or deleted it), also when
\* two requests carry the same id; and once an invocation that reached the
\* download step has finished, its path does not exist.
C23_Independent ==
    \A p \in DOMAIN invocations :
        /\ Scanning(p) => files[temp_video(p)] = Some(p)
        /\ (Finished(p) /\ invocations[p].reached) => IsNone(files[temp_video(p)])

====
